---- MODULE Spec2Model ----
(***************************************************************************)
(* Domino experiment-tracking and GenAI-tracing helpers                    *)
(* (templates/experiment/experiment_setup.py and                           *)
(* templates/tracing/tracing_setup.py).                                    *)
(*                                                                         *)
(* A Python str is a sequence of one-character strings, so formatting,     *)
(* concatenation, len(), str() and float() are computed rather than        *)
(* assumed.  A float is an integer number of 1/FloatScale units.           *)
(***************************************************************************)
EXTENDS Integers, Sequences, FiniteSets, TLC

(***************************************************************************)
(* Bounds of the model.                                                    *)
(***************************************************************************)
\* longest base name, string output and judge reply that is enumerated
MaxLen == 3

\* longest metric-name list handed to get_aggregation_metrics
MaxMetrics == 2

(***************************************************************************)
(* String literals of the two source files.                                *)
(***************************************************************************)
\* "unknown"
S_unknown ==
    << "u", "n", "k", "n", "o", "w", "n" >>

\* "-"
S_dash ==
    << "-" >>

\* "experiment"
S_experiment ==
    << "e", "x", "p", "e", "r", "i", "m", "e", "n", "t" >>

\* "Experiment set: "
S_ExperimentSet ==
    << "E", "x", "p", "e", "r", "i", "m", "e", "n", "t", " ", "s", "e", "t",
       ":", " " >>

\* "domino.user"
K_domino_user ==
    << "d", "o", "m", "i", "n", "o", ".", "u", "s", "e", "r" >>

\* "domino.project"
K_domino_project ==
    << "d", "o", "m", "i", "n", "o", ".", "p", "r", "o", "j", "e", "c", "t" >>

\* "domino.run_id"
K_domino_run_id ==
    << "d", "o", "m", "i", "n", "o", ".", "r", "u", "n", "_", "i", "d" >>

\* "domino.hardware_tier"
K_domino_hardware_tier ==
    << "d", "o", "m", "i", "n", "o", ".", "h", "a", "r", "d", "w", "a", "r",
       "e", "_", "t", "i", "e", "r" >>

\* "true"
S_true ==
    << "t", "r", "u", "e" >>

\* "104857600"
S_chunk ==
    << "1", "0", "4", "8", "5", "7", "6", "0", "0" >>

\* "Enabled scikit-learn auto-logging"
M_sklearn ==
    << "E", "n", "a", "b", "l", "e", "d", " ", "s", "c", "i", "k", "i", "t",
       "-", "l", "e", "a", "r", "n", " ", "a", "u", "t", "o", "-", "l", "o",
       "g", "g", "i", "n", "g" >>

\* "Enabled TensorFlow auto-logging"
M_tensorflow ==
    << "E", "n", "a", "b", "l", "e", "d", " ", "T", "e", "n", "s", "o", "r",
       "F", "l", "o", "w", " ", "a", "u", "t", "o", "-", "l", "o", "g", "g",
       "i", "n", "g" >>

\* "Enabled PyTorch auto-logging"
M_pytorch ==
    << "E", "n", "a", "b", "l", "e", "d", " ", "P", "y", "T", "o", "r", "c",
       "h", " ", "a", "u", "t", "o", "-", "l", "o", "g", "g", "i", "n", "g" >>

\* "Enabled XGBoost auto-logging"
M_xgboost ==
    << "E", "n", "a", "b", "l", "e", "d", " ", "X", "G", "B", "o", "o", "s",
       "t", " ", "a", "u", "t", "o", "-", "l", "o", "g", "g", "i", "n", "g" >>

\* "Enabled LightGBM auto-logging"
M_lightgbm ==
    << "E", "n", "a", "b", "l", "e", "d", " ", "L", "i", "g", "h", "t", "G",
       "B", "M", " ", "a", "u", "t", "o", "-", "l", "o", "g", "g", "i", "n",
       "g" >>

\* "Enabled multipart upload for large artifacts"
M_upload ==
    << "E", "n", "a", "b", "l", "e", "d", " ", "m", "u", "l", "t", "i", "p",
       "a", "r", "t", " ", "u", "p", "l", "o", "a", "d", " ", "f", "o", "r",
       " ", "l", "a", "r", "g", "e", " ", "a", "r", "t", "i", "f", "a", "c",
       "t", "s" >>

\* "openai"
S_openai ==
    << "o", "p", "e", "n", "a", "i" >>

\* "anthropic"
S_anthropic ==
    << "a", "n", "t", "h", "r", "o", "p", "i", "c" >>

\* "langchain"
S_langchain ==
    << "l", "a", "n", "g", "c", "h", "a", "i", "n" >>

\* "Enabled OpenAI auto-tracing"
M_openai ==
    << "E", "n", "a", "b", "l", "e", "d", " ", "O", "p", "e", "n", "A", "I",
       " ", "a", "u", "t", "o", "-", "t", "r", "a", "c", "i", "n", "g" >>

\* "Enabled Anthropic auto-tracing"
M_anthropic ==
    << "E", "n", "a", "b", "l", "e", "d", " ", "A", "n", "t", "h", "r", "o",
       "p", "i", "c", " ", "a", "u", "t", "o", "-", "t", "r", "a", "c", "i",
       "n", "g" >>

\* "Enabled LangChain auto-tracing"
M_langchain ==
    << "E", "n", "a", "b", "l", "e", "d", " ", "L", "a", "n", "g", "C", "h",
       "a", "i", "n", " ", "a", "u", "t", "o", "-", "t", "r", "a", "c", "i",
       "n", "g" >>

\* "Unknown framework: "
E_UnknownFramework ==
    << "U", "n", "k", "n", "o", "w", "n", " ", "f", "r", "a", "m", "e", "w",
       "o", "r", "k", ":", " " >>

\* ". Use 'openai', 'anthropic', or 'langchain'"
E_Use ==
    << ".", " ", "U", "s", "e", " ", "'", "o", "p", "e", "n", "a", "i", "'",
       ",", " ", "'", "a", "n", "t", "h", "r", "o", "p", "i", "c", "'", ",",
       " ", "o", "r", " ", "'", "l", "a", "n", "g", "c", "h", "a", "i", "n",
       "'" >>

\* "quality_score"
S_quality_score ==
    << "q", "u", "a", "l", "i", "t", "y", "_", "s", "c", "o", "r", "e" >>

\* "response_length"
S_response_length ==
    << "r", "e", "s", "p", "o", "n", "s", "e", "_", "l", "e", "n", "g", "t",
       "h" >>

\* "confidence"
S_confidence ==
    << "c", "o", "n", "f", "i", "d", "e", "n", "c", "e" >>

\* "latency"
S_latency ==
    << "l", "a", "t", "e", "n", "c", "y" >>

\* "response"
S_response ==
    << "r", "e", "s", "p", "o", "n", "s", "e" >>

\* "content"
S_content ==
    << "c", "o", "n", "t", "e", "n", "t" >>

\* "query"
S_query ==
    << "q", "u", "e", "r", "y" >>

\* "question"
S_question ==
    << "q", "u", "e", "s", "t", "i", "o", "n" >>

\* "llm_judge_score"
S_llm_judge_score ==
    << "l", "l", "m", "_", "j", "u", "d", "g", "e", "_", "s", "c", "o", "r",
       "e" >>

\* "judge_model"
S_judge_model ==
    << "j", "u", "d", "g", "e", "_", "m", "o", "d", "e", "l" >>

\* "gpt-4o-mini"
S_gpt4omini ==
    << "g", "p", "t", "-", "4", "o", "-", "m", "i", "n", "i" >>

\* "None"
S_None ==
    << "N", "o", "n", "e" >>

\* "mean"
S_mean ==
    << "m", "e", "a", "n" >>

\* "max"
S_max ==
    << "m", "a", "x" >>

\* "min"
S_min ==
    << "m", "i", "n" >>

(***************************************************************************)
(* Python values.  Every value is a record of one shape: t is the type,    *)
(* s the characters of a str, n the number of an int (or the units of a    *)
(* float), items the entries of a dict (records [k, v], in insertion       *)
(* order) or the elements of a list.                                       *)
(***************************************************************************)
\* a parsed reply has at most MaxLen - 1 digits after the point, and the
\* score is a tenth of it: every float of the model is a whole number of units
FloatScale == 10 ^ MaxLen

PyStr(chars) == [t |-> "str", s |-> chars, n |-> 0, items |-> <<>>]

PyInt(i) == [t |-> "int", s |-> <<>>, n |-> i, items |-> <<>>]

PyFloat(units) == [t |-> "float", s |-> <<>>, n |-> units, items |-> <<>>]

PyNone == [t |-> "NoneType", s |-> <<>>, n |-> 0, items |-> <<>>]

PyDict(entries) == [t |-> "dict", s |-> <<>>, n |-> 0, items |-> entries]

PyList(elems) == [t |-> "list", s |-> <<>>, n |-> 0, items |-> elems]

\* k in d
HasKey(d, k) == \E i \in 1..Len(d.items) : d.items[i].k = k

\* d.get(k, default)
Get(d, k, default) ==
    IF HasKey(d, k)
    THEN d.items[CHOOSE i \in 1..Len(d.items) : d.items[i].k = k].v
    ELSE default

\* x in lst, for a list of str
InList(x, lst) == \E i \in 1..Len(lst) : lst[i] = x

Digit(d) ==
    CASE d = 0 -> "0" [] d = 1 -> "1" [] d = 2 -> "2" [] d = 3 -> "3"
      [] d = 4 -> "4" [] d = 5 -> "5" [] d = 6 -> "6" [] d = 7 -> "7"
      [] d = 8 -> "8" [] d = 9 -> "9"

RECURSIVE NatStr(_)
NatStr(i) == IF i < 10 THEN << Digit(i) >> ELSE NatStr(i \div 10) \o << Digit(i % 10) >>

\* str(i) of an int
IntStr(i) == IF i < 0 THEN << "-" >> \o NatStr(-i) ELSE NatStr(i)

\* repr(s) of a str without quotes or escapes in it
StrRepr(chars) == << "'" >> \o chars \o << "'" >>

\* repr(v) of a scalar
Repr(v) ==
    CASE v.t = "str" -> StrRepr(v.s)
      [] v.t = "int" -> IntStr(v.n)
      [] v.t = "NoneType" -> S_None

RECURSIVE ItemsStr(_)
ItemsStr(entries) ==
    IF entries = <<>> THEN <<>>
    ELSE StrRepr(entries[1].k) \o << ":", " " >> \o Repr(entries[1].v)
         \o (IF Len(entries) > 1 THEN << ",", " " >> ELSE <<>>)
         \o ItemsStr(Tail(entries))

\* str(d) of a dict
DictStr(d) == << "{" >> \o ItemsStr(d.items) \o << "}" >>

\* str(v)
Str(v) ==
    CASE v.t = "str" -> v.s
      [] v.t = "dict" -> DictStr(v)
      [] OTHER -> Repr(v)

\* s.strip()
IsSpace(c) == c = " "

RECURSIVE LStrip(_)
LStrip(chars) ==
    IF chars # <<>> /\ IsSpace(chars[1]) THEN LStrip(Tail(chars)) ELSE chars

RECURSIVE RStrip(_)
RStrip(chars) ==
    IF chars # <<>> /\ IsSpace(chars[Len(chars)])
    THEN RStrip(SubSeq(chars, 1, Len(chars) - 1))
    ELSE chars

Strip(chars) == RStrip(LStrip(chars))

DigitValue(c) ==
    CASE c = "0" -> 0 [] c = "1" -> 1 [] c = "2" -> 2 [] c = "3" -> 3
      [] c = "4" -> 4 [] c = "5" -> 5 [] c = "6" -> 6 [] c = "7" -> 7
      [] c = "8" -> 8 [] c = "9" -> 9

IsDigit(c) == c \in {"0", "1", "2", "3", "4", "5", "6", "7", "8", "9"}

RECURSIVE DigitsValue(_)
DigitsValue(chars) ==
    IF chars = <<>> THEN 0
    ELSE 10 * DigitsValue(SubSeq(chars, 1, Len(chars) - 1))
         + DigitValue(chars[Len(chars)])

\* float(s) of a str made of digits, ".", a sign and blanks: ok is FALSE
\* where Python raises ValueError, units is the value in 1/FloatScale
ParseFloat(chars) ==
    LET st == Strip(chars)
        signed == st # <<>> /\ st[1] \in {"-", "+"}
        body == IF signed THEN Tail(st) ELSE st
        dots == {i \in 1..Len(body) : body[i] = "."}
        digs == {i \in 1..Len(body) : IsDigit(body[i])}
        wellFormed == /\ Cardinality(dots) <= 1
                      /\ Cardinality(digs) >= 1
                      /\ Cardinality(dots) + Cardinality(digs) = Len(body)
        dot == IF dots = {} THEN Len(body) + 1 ELSE CHOOSE i \in dots : TRUE
        whole == SubSeq(body, 1, dot - 1)
        frac == SubSeq(body, dot + 1, Len(body))
        mag == (DigitsValue(whole \o frac) * FloatScale) \div (10 ^ Len(frac))
    IN  IF wellFormed
        THEN [ok |-> TRUE, units |-> IF signed /\ st[1] = "-" THEN -mag ELSE mag]
        ELSE [ok |-> FALSE, units |-> 0]

\* max(0, min(10, score)) / 10
Normalize(units) ==
    LET low == IF units < 10 * FloatScale THEN units ELSE 10 * FloatScale
        clamped == IF low > 0 THEN low ELSE 0
    IN  clamped \div 10

(***************************************************************************)
(* State.                                                                  *)
(*   environ  os.environ of the process: a function from the names of the  *)
(*            variables that are set to their values                      *)
(*   frame    the invocation that has just returned: the operation, its    *)
(*            arguments, the value returned or the exception raised, the   *)
(*            calls it made into the tracking library and the LLM client   *)
(*            (in order) and the lines it printed; NoFrame between         *)
(*            invocations                                                  *)
(***************************************************************************)
VARIABLES environ, frame

vars == << environ, frame >>

NoFrame == [op |-> "none"]

NoException == [type |-> "none", msg |-> <<>>]

Call(api, arg) == [api |-> api, arg |-> arg]

Returned(op, args, ret, calls, printed) ==
    [op |-> op, args |-> args, ret |-> ret, raised |-> NoException,
     calls |-> calls, printed |-> printed]

Raised(op, args, type, msg, calls, printed) ==
    [op |-> op, args |-> args, ret |-> PyNone,
     raised |-> [type |-> type, msg |-> msg],
     calls |-> calls, printed |-> printed]

\* all str of at most n characters over an alphabet
Strings(alphabet, n) == UNION {[1..k -> alphabet] : k \in 0..n}

(***************************************************************************)
(* The environment the platform starts the process in.                     *)
(***************************************************************************)
DominoVars ==
    {"DOMINO_STARTING_USERNAME", "DOMINO_PROJECT_NAME", "DOMINO_RUN_ID",
     "DOMINO_HARDWARE_TIER_NAME"}

\* the value the platform gives a variable it sets
PlatformValue(var) ==
    CASE var = "DOMINO_STARTING_USERNAME" -> << "a", "l" >>
      [] var = "DOMINO_PROJECT_NAME" -> << "p", "1" >>
      [] var = "DOMINO_RUN_ID" -> << "r", "-", "7" >>
      [] var = "DOMINO_HARDWARE_TIER_NAME" -> << "g", "p", "u" >>

\* os.environ.get(name, default)
EnvGet(name, default) ==
    IF name \in DOMAIN environ THEN environ[name] ELSE default

Init ==
    /\ \E set \in SUBSET DominoVars :
           environ = [var \in set |-> PlatformValue(var)]
    /\ frame = NoFrame

(***************************************************************************)
(* experiment_setup.py                                                     *)
(***************************************************************************)
BaseNames == Strings({"m", "-"}, MaxLen) \cup {S_experiment}

\* mutant of ExperimentName: user and project change places
ExperimentName_Swapped(base_name, project, username) ==
    base_name \o S_dash \o username \o S_dash \o project

\* f"{base_name}-{project}-{username}"
ExperimentName(base_name, project, username) ==
    base_name \o S_dash \o project \o S_dash \o username

setup_experiment(base_name) ==
    LET username == EnvGet("DOMINO_STARTING_USERNAME", S_unknown)
        project == EnvGet("DOMINO_PROJECT_NAME", S_unknown)
        experiment_name == ExperimentName(base_name, project, username)
    IN  Returned("setup_experiment", [base_name |-> base_name],
                 PyStr(experiment_name),
                 << Call("mlflow.set_experiment", PyStr(experiment_name)) >>,
                 << S_ExperimentSet \o experiment_name >>)

SetupExperiment ==
    /\ frame = NoFrame
    /\ \E base_name \in BaseNames : frame' = setup_experiment(base_name)
    /\ UNCHANGED environ

\* mutant of DominoTags: the hardware tier is read from a variable the
\* platform never sets
DominoTags_WrongTierVariable ==
    PyDict(<< [k |-> K_domino_user,
               v |-> PyStr(EnvGet("DOMINO_STARTING_USERNAME", S_unknown))],
              [k |-> K_domino_project,
               v |-> PyStr(EnvGet("DOMINO_PROJECT_NAME", S_unknown))],
              [k |-> K_domino_run_id,
               v |-> PyStr(EnvGet("DOMINO_RUN_ID", S_unknown))],
              [k |-> K_domino_hardware_tier,
               v |-> PyStr(EnvGet("DOMINO_HARDWARE_TIER", S_unknown))] >>)

DominoTags ==
    PyDict(<< [k |-> K_domino_user,
               v |-> PyStr(EnvGet("DOMINO_STARTING_USERNAME", S_unknown))],
              [k |-> K_domino_project,
               v |-> PyStr(EnvGet("DOMINO_PROJECT_NAME", S_unknown))],
              [k |-> K_domino_run_id,
               v |-> PyStr(EnvGet("DOMINO_RUN_ID", S_unknown))],
              [k |-> K_domino_hardware_tier,
               v |-> PyStr(EnvGet("DOMINO_HARDWARE_TIER_NAME", S_unknown))] >>)

\* mutant of log_domino_context: one set_tag call for each tag
log_domino_context_TagByTag ==
    Returned("log_domino_context", << >>, PyNone,
             [i \in 1..Len(DominoTags.items) |->
                 Call("mlflow.set_tag", PyDict(<< DominoTags.items[i] >>))],
             << >>)

log_domino_context ==
    Returned("log_domino_context", << >>, PyNone,
             << Call("mlflow.set_tags", DominoTags) >>, << >>)

LogDominoContext ==
    /\ frame = NoFrame
    /\ frame' = log_domino_context
    /\ UNCHANGED environ

\* the five try blocks of setup_autolog, in source order
AutologFrameworks ==
    << [lib |-> "sklearn", api |-> "mlflow.sklearn.autolog", msg |-> M_sklearn],
       [lib |-> "tensorflow", api |-> "mlflow.tensorflow.autolog",
        msg |-> M_tensorflow],
       [lib |-> "torch", api |-> "mlflow.pytorch.autolog", msg |-> M_pytorch],
       [lib |-> "xgboost", api |-> "mlflow.xgboost.autolog", msg |-> M_xgboost],
       [lib |-> "lightgbm", api |-> "mlflow.lightgbm.autolog",
        msg |-> M_lightgbm] >>

AutologLibs == {AutologFrameworks[i].lib : i \in 1..Len(AutologFrameworks)}

\* mutant of AutologFrom: one try block around all five, so that the first
\* missing library ends the function
RECURSIVE AutologFrom_OneTry(_, _)
AutologFrom_OneTry(i, installed) ==
    IF i > Len(AutologFrameworks) THEN [calls |-> << >>, printed |-> << >>]
    ELSE LET rest == AutologFrom_OneTry(i + 1, installed)
             fw == AutologFrameworks[i]
         IN  IF fw.lib \in installed
             THEN [calls |-> << Call(fw.api, PyNone) >> \o rest.calls,
                   printed |-> << fw.msg >> \o rest.printed]
             ELSE [calls |-> << >>, printed |-> << >>]

\* try: import lib; mlflow.<lib>.autolog(); print(...)  except ImportError: pass
\* for block i and every block after it; installed is the set of libraries
\* whose import succeeds
RECURSIVE AutologFrom(_, _)
AutologFrom(i, installed) ==
    IF i > Len(AutologFrameworks) THEN [calls |-> << >>, printed |-> << >>]
    ELSE LET rest == AutologFrom(i + 1, installed)
             fw == AutologFrameworks[i]
         IN  IF fw.lib \in installed
             THEN [calls |-> << Call(fw.api, PyNone) >> \o rest.calls,
                   printed |-> << fw.msg >> \o rest.printed]
             ELSE rest

setup_autolog(installed) ==
    LET done == AutologFrom(1, installed)
    IN  Returned("setup_autolog", [installed |-> installed], PyNone,
                 done.calls, done.printed)

SetupAutolog ==
    /\ frame = NoFrame
    /\ \E installed \in SUBSET AutologLibs : frame' = setup_autolog(installed)
    /\ UNCHANGED environ

\* the two assignments to os.environ
UploadSettings ==
    [var \in {"MLFLOW_ENABLE_PROXY_MULTIPART_UPLOAD",
              "MLFLOW_MULTIPART_UPLOAD_CHUNK_SIZE"} |->
        IF var = "MLFLOW_ENABLE_PROXY_MULTIPART_UPLOAD" THEN S_true ELSE S_chunk]

EnableLargeArtifactUpload ==
    /\ frame = NoFrame
    /\ environ' = [var \in DOMAIN environ \cup DOMAIN UploadSettings |->
                      IF var \in DOMAIN UploadSettings
                      THEN UploadSettings[var] ELSE environ[var]]
    /\ frame' = Returned("enable_large_artifact_upload", << >>, PyNone,
                         << >>, << M_upload >>)

(***************************************************************************)
(* tracing_setup.py                                                        *)
(***************************************************************************)
FrameworkNames ==
    {S_openai, S_anthropic, S_langchain}
        \cup Strings({"a", "i"}, MaxLen)
        \cup {<< "O", "p", "e", "n", "A", "I" >>, S_openai \o << " " >>}

\* mutant of setup_tracing: a name that is not known is passed over in silence
setup_tracing_Silent(framework) ==
    LET args == [framework |-> framework]
    IN  IF framework = S_openai
        THEN Returned("setup_tracing", args, PyNone,
                      << Call("mlflow.openai.autolog", PyNone) >>,
                      << M_openai >>)
        ELSE IF framework = S_anthropic
        THEN Returned("setup_tracing", args, PyNone,
                      << Call("mlflow.anthropic.autolog", PyNone) >>,
                      << M_anthropic >>)
        ELSE IF framework = S_langchain
        THEN Returned("setup_tracing", args, PyNone,
                      << Call("mlflow.langchain.autolog", PyNone) >>,
                      << M_langchain >>)
        ELSE Returned("setup_tracing", args, PyNone, << >>, << >>)

setup_tracing(framework) ==
    LET args == [framework |-> framework]
    IN  IF framework = S_openai
        THEN Returned("setup_tracing", args, PyNone,
                      << Call("mlflow.openai.autolog", PyNone) >>,
                      << M_openai >>)
        ELSE IF framework = S_anthropic
        THEN Returned("setup_tracing", args, PyNone,
                      << Call("mlflow.anthropic.autolog", PyNone) >>,
                      << M_anthropic >>)
        ELSE IF framework = S_langchain
        THEN Returned("setup_tracing", args, PyNone,
                      << Call("mlflow.langchain.autolog", PyNone) >>,
                      << M_langchain >>)
        ELSE Raised("setup_tracing", args, "ValueError",
                    E_UnknownFramework \o framework \o E_Use,
                    << >>, << >>)

SetupTracing ==
    /\ frame = NoFrame
    /\ \E framework \in FrameworkNames : frame' = setup_tracing(framework)
    /\ UNCHANGED environ

\* the metric names the evaluator and the aggregation builder know, in the
\* order the evaluator fills them in, and one they do not know
MetricOrder == << S_response_length, S_quality_score, S_confidence, S_latency >>

OtherMetric == << "f", "1" >>

RECURSIVE Pick(_, _)
Pick(names, idx) ==
    IF names = <<>> THEN <<>>
    ELSE (IF Len(names) \in idx THEN Pick(SubSeq(names, 1, Len(names) - 1), idx)
                                     \o << names[Len(names)] >>
          ELSE Pick(SubSeq(names, 1, Len(names) - 1), idx))

\* the metrics argument of create_evaluator: None (omitted), or a list; the
\* evaluator only asks "name in metrics", so one list per set of names
EvaluatorMetrics ==
    {PyNone} \cup {PyList(Pick(MetricOrder, idx)) : idx \in SUBSET (1..Len(MetricOrder))}

DictKeys == {S_response, S_content, S_confidence}

DictValues == {PyStr(<< "h", "i" >>), PyInt(12), PyNone}

\* every dict over DictKeys and DictValues, in every insertion order
Dicts ==
    UNION {
      UNION {
        {PyDict([i \in 1..n |-> [k |-> ks[i], v |-> vs[i]]]) :
            vs \in [1..n -> DictValues]} :
        ks \in {f \in [1..n -> DictKeys] :
                  \A i, j \in 1..n : f[i] = f[j] => i = j}} :
      n \in 0..Cardinality(DictKeys)}

\* what a traced function may return
Outputs ==
    {PyStr(chars) : chars \in Strings({"a", "b"}, MaxLen)}
        \cup {PyInt(12), PyNone}
        \cup Dicts

\* the arguments a traced function may be called with
Inputs ==
    {PyDict(<< >>),
     PyDict(<< [k |-> S_query, v |-> PyStr(<< "q", "?" >>)] >>),
     PyDict(<< [k |-> S_question, v |-> PyStr(<< "w" >>)],
               [k |-> S_query, v |-> PyInt(12)] >>)}

\* if metrics is None: metrics = ["quality_score", "response_length"]
DefaultMetrics == PyList(<< S_quality_score, S_response_length >>)

\* mutant of ResponseLength: a str output is measured by its repr
ResponseLength_Repr(output) ==
    IF output.t = "str" THEN Len(StrRepr(output.s))
    ELSE IF output.t = "dict"
    THEN LET response ==
                 Get(output, S_response,
                     Get(output, S_content, PyStr(Str(output))))
         IN  Len(Str(response))
    ELSE Len(Str(output))

\* mutant of ResponseLength: "content" is looked up before "response"
ResponseLength_ContentFirst(output) ==
    IF output.t = "str" THEN Len(output.s)
    ELSE IF output.t = "dict"
    THEN LET response ==
                 Get(output, S_content,
                     Get(output, S_response, PyStr(Str(output))))
         IN  Len(Str(response))
    ELSE Len(Str(output))

\* the response_length branch of the evaluator
ResponseLength(output) ==
    IF output.t = "str" THEN Len(output.s)
    ELSE IF output.t = "dict"
    THEN LET response ==
                 Get(output, S_response,
                     Get(output, S_content, PyStr(Str(output))))
         IN  Len(Str(response))
    ELSE Len(Str(output))

\* the evaluator returned by create_evaluator(metrics), applied
evaluator(metrics, inputs, output) ==
    LET names == IF metrics = PyNone THEN DefaultMetrics.items ELSE metrics.items
        length == IF InList(S_response_length, names)
                  THEN << [k |-> S_response_length,
                           v |-> PyInt(ResponseLength(output))] >>
                  ELSE << >>
        quality == IF InList(S_quality_score, names)
                   THEN << [k |-> S_quality_score,
                            v |-> PyFloat((8 * FloatScale) \div 10)] >>
                   ELSE << >>
        confidence == IF InList(S_confidence, names) /\ output.t = "dict"
                      THEN << [k |-> S_confidence,
                               v |-> Get(output, S_confidence, PyInt(0))] >>
                      ELSE << >>
    IN  Returned("evaluator",
                 [metrics |-> metrics, inputs |-> inputs, output |-> output],
                 PyDict(length \o quality \o confidence), << >>, << >>)

\* create_evaluator(metrics)(inputs, output)
CallEvaluator ==
    /\ frame = NoFrame
    /\ \E metrics \in EvaluatorMetrics, inputs \in Inputs, output \in Outputs :
           frame' = evaluator(metrics, inputs, output)
    /\ UNCHANGED environ

JudgeModels == {S_gpt4omini, << "j", "1" >>}

\* what the scoring call can come back with: the openai package missing,
\* the request failing, a reply without choices, a reply whose content is
\* None, or a reply whose content is a str
Replies ==
    {[kind |-> k, content |-> << >>] :
        k \in {"ImportError", "APIError", "no choices", "no content"}}
      \cup {[kind |-> "content", content |-> chars] :
              chars \in Strings({"7", ".", "-", " ", "x"}, MaxLen)}

\* the outputs the judge is asked about
JudgedOutputs ==
    {PyStr(<< "a", "b" >>),
     PyDict(<< [k |-> S_content, v |-> PyStr(<< "h", "i" >>)] >>)}

\* query and response as the judge prompt interpolates them
JudgePrompt(inputs, output) ==
    LET query == Get(inputs, S_query, Get(inputs, S_question, PyStr(Str(inputs))))
        response == IF output.t = "dict"
                    THEN Get(output, S_response,
                             Get(output, S_content, PyStr(Str(output))))
                    ELSE PyStr(Str(output))
    IN  [query |-> Str(query), response |-> Str(response)]

\* mutant of JudgeScore: the fallback score is 0
JudgeScore_Zero(reply) ==
    IF reply.kind = "content" /\ ParseFloat(reply.content).ok
    THEN Normalize(ParseFloat(reply.content).units)
    ELSE 0

\* the try block: the request, float(content.strip()), the normalisation;
\* except Exception: score = 0.5
JudgeScore(reply) ==
    IF reply.kind = "content" /\ ParseFloat(reply.content).ok
    THEN Normalize(ParseFloat(reply.content).units)
    ELSE (5 * FloatScale) \div 10

\* the evaluator returned by create_llm_judge_evaluator(judge_model), applied
llm_judge_evaluator(judge_model, inputs, output, reply) ==
    LET args == [judge_model |-> judge_model, inputs |-> inputs,
                 output |-> output, reply |-> reply]
        prompt == JudgePrompt(inputs, output)
        request == Call("openai.chat.completions.create",
                        PyDict(<< [k |-> << "m", "o", "d", "e", "l" >>,
                                   v |-> PyStr(judge_model)],
                                  [k |-> S_query, v |-> PyStr(prompt.query)],
                                  [k |-> S_response,
                                   v |-> PyStr(prompt.response)] >>))
    IN  IF reply.kind = "ImportError"
        THEN Raised("llm_judge_evaluator", args, "ImportError", << >>,
                    << >>, << >>)
        ELSE Returned("llm_judge_evaluator", args,
                      PyDict(<< [k |-> S_llm_judge_score,
                                 v |-> PyFloat(JudgeScore(reply))],
                                [k |-> S_judge_model,
                                 v |-> PyStr(judge_model)] >>),
                      << request >>, << >>)

\* create_llm_judge_evaluator(judge_model)(inputs, output)
CallLlmJudgeEvaluator ==
    /\ frame = NoFrame
    /\ \E judge_model \in JudgeModels, inputs \in Inputs,
          output \in JudgedOutputs, reply \in Replies :
           frame' = llm_judge_evaluator(judge_model, inputs, output, reply)
    /\ UNCHANGED environ

\* the metric_names argument: None (omitted), or a list of names
MetricNameLists ==
    {PyNone} \cup
    {PyList(names) :
        names \in UNION {[1..n -> {MetricOrder[i] : i \in 1..Len(MetricOrder)}
                                    \cup {OtherMetric}] : n \in 0..MaxMetrics}}

\* if metric_names is None: the default list
DefaultMetricNames == PyList(<< S_quality_score, S_response_length, S_confidence >>)

\* mutant of AggregationsOf: latency gets no max
AggregationsOf_NoLatency(name) ==
    << << name, S_mean >> >>
      \o (IF InList(name, << S_response_length >>)
          THEN << << name, S_max >> >> ELSE << >>)
      \o (IF InList(name, << S_quality_score, S_confidence >>)
          THEN << << name, S_min >> >> ELSE << >>)

\* the body of the for loop, for one name
AggregationsOf(name) ==
    << << name, S_mean >> >>
      \o (IF InList(name, << S_response_length, S_latency >>)
          THEN << << name, S_max >> >> ELSE << >>)
      \o (IF InList(name, << S_quality_score, S_confidence >>)
          THEN << << name, S_min >> >> ELSE << >>)

RECURSIVE Aggregations(_)
Aggregations(names) ==
    IF names = << >> THEN << >>
    ELSE AggregationsOf(names[1]) \o Aggregations(Tail(names))

get_aggregation_metrics(metric_names) ==
    LET names == IF metric_names = PyNone THEN DefaultMetricNames.items
                 ELSE metric_names.items
    IN  Returned("get_aggregation_metrics", [metric_names |-> metric_names],
                 PyList(Aggregations(names)), << >>, << >>)

GetAggregationMetrics ==
    /\ frame = NoFrame
    /\ \E metric_names \in MetricNameLists :
           frame' = get_aggregation_metrics(metric_names)
    /\ UNCHANGED environ

(***************************************************************************)
(* Properties.                                                             *)
(***************************************************************************)
\* the value of an environment variable, or "unknown" when it is unset
OrUnknown(var) == IF var \in DOMAIN environ THEN environ[var] ELSE S_unknown

\* sub occurs in chars
Contains(chars, sub) ==
    \E i \in 0..(Len(chars) - Len(sub)) : SubSeq(chars, i + 1, i + Len(sub)) = sub

\* v is an int or a float
IsNumeric(v) == v.t \in {"int", "float"}

\* the keys of a dict, as a set
Keys(d) == {d.items[i].k : i \in 1..Len(d.items)}

\* C1: setup_experiment(base) returns base, "-", the project (or "unknown"),
\* "-", the user (or "unknown"), and passes exactly that string to its single
\* mlflow.set_experiment call.
C1_ExperimentName ==
    frame.op = "setup_experiment" =>
        LET expected == frame.args.base_name \o << "-" >>
                          \o OrUnknown("DOMINO_PROJECT_NAME") \o << "-" >>
                          \o OrUnknown("DOMINO_STARTING_USERNAME")
        IN  /\ frame.raised = NoException
            /\ frame.ret = PyStr(expected)
            /\ Len(frame.calls) = 1
            /\ frame.calls[1].api = "mlflow.set_experiment"
            /\ frame.calls[1].arg = frame.ret

C1_Witness ==
    /\ frame.op = "setup_experiment"
    /\ frame.args.base_name = << "m", "-", "m" >>
    /\ "DOMINO_PROJECT_NAME" \notin DOMAIN environ
    /\ "DOMINO_STARTING_USERNAME" \in DOMAIN environ

\* C2: log_domino_context sends one tag mapping whose keys are exactly
\* domino.user, domino.project, domino.run_id and domino.hardware_tier, each
\* with its variable's value, or "unknown" when the variable is unset.
C2_FourTags ==
    frame.op = "log_domino_context" =>
        /\ Len(frame.calls) = 1
        /\ frame.calls[1].api = "mlflow.set_tags"
        /\ LET tags == frame.calls[1].arg
           IN  /\ tags.t = "dict"
               /\ Len(tags.items) = 4
               /\ Keys(tags) = {K_domino_user, K_domino_project,
                                K_domino_run_id, K_domino_hardware_tier}
               /\ Get(tags, K_domino_user, PyNone)
                    = PyStr(OrUnknown("DOMINO_STARTING_USERNAME"))
               /\ Get(tags, K_domino_project, PyNone)
                    = PyStr(OrUnknown("DOMINO_PROJECT_NAME"))
               /\ Get(tags, K_domino_run_id, PyNone)
                    = PyStr(OrUnknown("DOMINO_RUN_ID"))
               /\ Get(tags, K_domino_hardware_tier, PyNone)
                    = PyStr(OrUnknown("DOMINO_HARDWARE_TIER_NAME"))

C2_Witness ==
    /\ frame.op = "log_domino_context"
    /\ "DOMINO_RUN_ID" \notin DOMAIN environ
    /\ "DOMINO_HARDWARE_TIER_NAME" \in DOMAIN environ
    /\ Len(frame.calls) = 1

AcceptedFrameworks == {S_openai, S_anthropic, S_langchain}

TracingApi(framework) ==
    CASE framework = S_openai -> "mlflow.openai.autolog"
      [] framework = S_anthropic -> "mlflow.anthropic.autolog"
      [] framework = S_langchain -> "mlflow.langchain.autolog"

\* C3: setup_tracing with a name other than openai, anthropic or langchain
\* raises an error whose message holds the name given and the three accepted
\* names, and enables nothing; with an accepted name it enables exactly that
\* framework's auto-tracing and raises nothing.
C3_UnknownFrameworkRaises ==
    frame.op = "setup_tracing" =>
        IF frame.args.framework \in AcceptedFrameworks
        THEN /\ frame.raised = NoException
             /\ Len(frame.calls) = 1
             /\ frame.calls[1].api = TracingApi(frame.args.framework)
        ELSE /\ frame.raised.type = "ValueError"
             /\ Contains(frame.raised.msg,
                         << ":", " " >> \o frame.args.framework \o << "." >>)
             /\ \A name \in AcceptedFrameworks :
                    Contains(frame.raised.msg, StrRepr(name))
             /\ frame.calls = << >>

C3_Witness ==
    /\ frame.op = "setup_tracing"
    /\ frame.args.framework = << "O", "p", "e", "n", "A", "I" >>
    /\ frame.raised.type = "ValueError"

LibApi(lib) ==
    CASE lib = "sklearn" -> "mlflow.sklearn.autolog"
      [] lib = "tensorflow" -> "mlflow.tensorflow.autolog"
      [] lib = "torch" -> "mlflow.pytorch.autolog"
      [] lib = "xgboost" -> "mlflow.xgboost.autolog"
      [] lib = "lightgbm" -> "mlflow.lightgbm.autolog"

LibRank(api) ==
    CASE api = "mlflow.sklearn.autolog" -> 1
      [] api = "mlflow.tensorflow.autolog" -> 2
      [] api = "mlflow.pytorch.autolog" -> 3
      [] api = "mlflow.xgboost.autolog" -> 4
      [] api = "mlflow.lightgbm.autolog" -> 5

\* C4: whatever subset of the five libraries is missing, setup_autolog raises
\* nothing and enables auto-logging for exactly the libraries that are there,
\* once each, in the order scikit-learn, TensorFlow, PyTorch, XGBoost,
\* LightGBM.
C4_AutologBestEffort ==
    frame.op = "setup_autolog" =>
        /\ frame.raised = NoException
        /\ {frame.calls[i].api : i \in 1..Len(frame.calls)}
             = {LibApi(lib) : lib \in frame.args.installed}
        /\ Len(frame.calls) = Cardinality(frame.args.installed)
        /\ \A i, j \in 1..Len(frame.calls) :
               i < j => LibRank(frame.calls[i].api) < LibRank(frame.calls[j].api)

C4_Witness ==
    /\ frame.op = "setup_autolog"
    /\ frame.args.installed = {"tensorflow", "lightgbm"}
    /\ Len(frame.calls) = 2
    /\ frame.calls[2].api = "mlflow.lightgbm.autolog"

\* the scoring call failed: the request raised, the reply had no choice or no
\* content, or the content is not a number
ScoringFailed(reply) ==
    \/ reply.kind \in {"APIError", "no choices", "no content"}
    \/ reply.kind = "content" /\ ~ParseFloat(reply.content).ok

\* C5: when the scoring call fails, the judge evaluator raises nothing and
\* returns llm_judge_score = 0.5 together with the judge_model entry.
C5_JudgeFailureIsNeutral ==
    (frame.op = "llm_judge_evaluator" /\ ScoringFailed(frame.args.reply)) =>
        /\ frame.raised = NoException
        /\ frame.ret.t = "dict"
        /\ Keys(frame.ret) = {S_llm_judge_score, S_judge_model}
        /\ Get(frame.ret, S_llm_judge_score, PyNone).t = "float"
        /\ 2 * Get(frame.ret, S_llm_judge_score, PyNone).n = FloatScale
        /\ Get(frame.ret, S_judge_model, PyNone) = PyStr(frame.args.judge_model)

C5_Witness ==
    /\ frame.op = "llm_judge_evaluator"
    /\ frame.args.reply.kind = "content"
    /\ frame.args.reply.content = << "7", ".", "x" >>
    /\ frame.raised = NoException

\* C6: the default evaluator, given a str output and any inputs, returns
\* exactly two entries: response_length, the number of characters of the
\* output, and quality_score, 0.8.
C6_DefaultEvaluatorOnStr ==
    (/\ frame.op = "evaluator"
     /\ frame.args.metrics = PyNone
     /\ frame.args.output.t = "str") =>
        /\ frame.raised = NoException
        /\ Len(frame.ret.items) = 2
        /\ Keys(frame.ret) = {S_response_length, S_quality_score}
        /\ Get(frame.ret, S_response_length, PyNone)
             = PyInt(Len(frame.args.output.s))
        /\ Get(frame.ret, S_quality_score, PyNone).t = "float"
        /\ 10 * Get(frame.ret, S_quality_score, PyNone).n = 8 * FloatScale

C6_Witness ==
    /\ frame.op = "evaluator"
    /\ frame.args.metrics = PyNone
    /\ frame.args.output = PyStr(<< "a", "b", "a" >>)
    /\ frame.args.inputs # PyDict(<< >>)
    /\ Get(frame.ret, S_response_length, PyNone) = PyInt(3)

\* C7: the default evaluator, given a dict output, takes response_length from
\* the value under "response" when that key is there (also next to
\* "content"), else from the value under "content", and from the dict's own
\* string form only when both keys are missing.
C7_DictOutputLength ==
    (/\ frame.op = "evaluator"
     /\ frame.args.metrics = PyNone
     /\ frame.args.output.t = "dict") =>
        LET output == frame.args.output
            at(key) == (CHOOSE e \in {output.items[i] : i \in 1..Len(output.items)} :
                            e.k = key).v
            measured == IF S_response \in Keys(output) THEN Str(at(S_response))
                        ELSE IF S_content \in Keys(output) THEN Str(at(S_content))
                        ELSE DictStr(output)
        IN  Get(frame.ret, S_response_length, PyNone) = PyInt(Len(measured))

C7_Witness ==
    /\ frame.op = "evaluator"
    /\ frame.args.metrics = PyNone
    /\ frame.args.output
         = PyDict(<< [k |-> S_content, v |-> PyNone],
                     [k |-> S_response, v |-> PyInt(12)] >>)
    /\ Get(frame.ret, S_response_length, PyNone) = PyInt(2)

\* the aggregation kinds of one name, by the rule of the claim
KindsOf(name) ==
    << S_mean >>
      \o (IF name \in {S_response_length, S_latency} THEN << S_max >> ELSE << >>)
      \o (IF name \in {S_quality_score, S_confidence} THEN << S_min >> ELSE << >>)

\* the pairs the claim expects, built from the last name backwards
RECURSIVE ExpectedPairs(_)
ExpectedPairs(names) ==
    IF names = << >> THEN << >>
    ELSE LET last == names[Len(names)]
         IN  ExpectedPairs(SubSeq(names, 1, Len(names) - 1))
               \o [i \in 1..Len(KindsOf(last)) |-> << last, KindsOf(last)[i] >>]

\* C8: get_aggregation_metrics returns, for each name in input order,
\* (name, mean), then (name, max) exactly for response_length and latency,
\* then (name, min) exactly for quality_score and confidence, and nothing
\* else; [quality_score, response_length] gives mean and min for
\* quality_score, then mean and max for response_length.
C8_AggregationPairs ==
    (frame.op = "get_aggregation_metrics" /\ frame.args.metric_names # PyNone) =>
        /\ frame.raised = NoException
        /\ frame.ret = PyList(ExpectedPairs(frame.args.metric_names.items))
        /\ frame.args.metric_names.items = << S_quality_score, S_response_length >>
             => frame.ret.items = << << S_quality_score, S_mean >>,
                                     << S_quality_score, S_min >>,
                                     << S_response_length, S_mean >>,
                                     << S_response_length, S_max >> >>

C8_Witness ==
    /\ frame.op = "get_aggregation_metrics"
    /\ frame.args.metric_names = PyList(<< S_latency, OtherMetric >>)
    /\ Len(frame.ret.items) = 3

\* C9, as the specification states it: no invocation makes more than one
\* external call and no invocation writes the process environment.
C9_AtMostOneCallNoWrites ==
    [][frame' # NoFrame => Len(frame'.calls) <= 1 /\ environ' = environ]_vars

\* C9, amended: an invocation makes at most one external call and leaves the
\* process environment alone, except that setup_autolog makes one call for
\* each installed framework (up to five) and enable_large_artifact_upload
\* makes no call and sets MLFLOW_ENABLE_PROXY_MULTIPART_UPLOAD and
\* MLFLOW_MULTIPART_UPLOAD_CHUNK_SIZE, changing no other variable.
C9_CallsAndWritesPerOperation ==
    [][frame' # NoFrame =>
         /\ frame'.op # "setup_autolog" => Len(frame'.calls) <= 1
         /\ frame'.op = "setup_autolog" =>
                Len(frame'.calls) = Cardinality(frame'.args.installed)
         /\ frame'.op # "enable_large_artifact_upload" => environ' = environ
         /\ frame'.op = "enable_large_artifact_upload" =>
                /\ frame'.calls = << >>
                /\ DOMAIN environ' = DOMAIN environ
                     \cup {"MLFLOW_ENABLE_PROXY_MULTIPART_UPLOAD",
                           "MLFLOW_MULTIPART_UPLOAD_CHUNK_SIZE"}
                /\ environ'["MLFLOW_ENABLE_PROXY_MULTIPART_UPLOAD"] = S_true
                /\ environ'["MLFLOW_MULTIPART_UPLOAD_CHUNK_SIZE"] = S_chunk
                /\ \A var \in DOMAIN environ \cap DominoVars :
                       environ'[var] = environ[var]
      ]_vars

C9_Witness ==
    /\ frame.op = "enable_large_artifact_upload"
    /\ "MLFLOW_ENABLE_PROXY_MULTIPART_UPLOAD" \in DOMAIN environ
    /\ "DOMINO_RUN_ID" \in DOMAIN environ
    /\ frame.calls = << >>

\* C10: every mapping an evaluator returns has only numeric values.
C10_ScoresAreNumeric ==
    (frame.op \in {"evaluator", "llm_judge_evaluator"}
        /\ frame.raised = NoException) =>
        /\ frame.ret.t = "dict"
        /\ \A i \in 1..Len(frame.ret.items) : IsNumeric(frame.ret.items[i].v)

\* the caller takes the returned value (or the exception) and goes on
CallerContinues ==
    /\ frame # NoFrame
    /\ frame' = NoFrame
    /\ UNCHANGED environ

Next ==
    \/ SetupExperiment
    \/ LogDominoContext
    \/ SetupAutolog
    \/ EnableLargeArtifactUpload
    \/ SetupTracing
    \/ CallEvaluator
    \/ CallLlmJudgeEvaluator
    \/ GetAggregationMetrics
    \/ CallerContinues

Spec == Init /\ [][Next]_vars

====
